---- MODULE Spec2Model ----
(***************************************************************************)
(* Model of backup_master.py: the lock decorator, the backup and restore   *)
(* resource chains, do_backup, do_restore, parse_args and main.            *)
(*                                                                         *)
(* Every process is one invocation of the script; the invocations are     *)
(* numbered in the order in which they reach the lock.  The file system is *)
(* shared: the lock marker, the live files of the master, the services,    *)
(* and, per run, the staging directory and the archive the run creates.    *)
(* A path is a tuple of its components below the directory it lives in;    *)
(* the content of a file is "absent", "partial" (created, not yet wholly   *)
(* written) or the data it holds.                                          *)
(***************************************************************************)
EXTENDS Naturals, Sequences, FiniteSets, TLC

\* ------------------------------------------------------------------ bounds
NumProcs == 2

Procs == 1..NumProcs

\* ------------------------------------------------------- module constants
LOCKFILE == <<"kd-master-backup.lock">>
ETCD_DATA == "member"
ETCD_PKI == <<"pki-etcd">>
KNOWN_TOKENS == <<"known_tokens.csv">>
NODE_CONFIGFILE == <<"configfile_for_nodes">>
SSH_KEY == <<"id_rsa">>
SSH_KEY_PUB == <<"id_rsa.pub">>
LICENSE == <<".license">>
DATABASE == <<"kuberdock">>
config_src == <<"conf.d">>

\* the live locations the script reads and writes
LivePaths ==
    { DATABASE, <<ETCD_DATA, "wal">>, <<ETCD_DATA, "snap">>, ETCD_PKI,
      KNOWN_TOKENS, NODE_CONFIGFILE, SSH_KEY, SSH_KEY_PUB, LICENSE,
      config_src }

\* the names a capture step creates below the staging directory
TmpRoots == { "postgres-.backup.in_progress", "etcd--inprogress",
              "ssh-key-.backup.in_progress", "etcd-pki--inprogress",
              "nginx-config--inprogress" }

StagingPaths ==
    { <<"main.log">>,
      <<"postgres-.backup.in_progress">>, <<"postgresql.backup">>,
      <<"etcd--inprogress", "wal">>, <<"etcd--inprogress", "snap">>,
      <<"etcd--inprogress", "snap", "dummy">>,
      <<"etcd", "wal">>, <<"etcd", "snap">>, <<"etcd", "snap", "dummy">>,
      <<"ssh-key-.backup.in_progress">>, <<"id_rsa">>, <<"id_rsa.pub">>,
      <<"etcd-pki--inprogress", "certs">>, <<"etcd_pki", "certs">>,
      <<"known_tokens.csv">>, <<"configfile_for_nodes">>,
      <<".license">>,
      <<"nginx-config--inprogress", "conf">>, <<"nginx_config", "conf">> }

Services == { "postgresql", "etcd", "kube-apiserver", "nginx",
              "emperor.uwsgi" }

NoFiles == [n \in StagingPaths |-> "absent"]

VARIABLES
    lockfile,       \* whether the lock marker exists
    live,           \* live location -> content
    services,       \* service -> "running" | "stopped"
    pc,             \* process -> position in main / wrapper / do_*
    argv,           \* process -> the command line it was started with
    skip_errors,    \* process -> args.skip_errors
    idx,            \* process -> index into the chain
    ip,             \* process -> instruction within the resource step
    staging,        \* process -> content of backup_dst, path -> content
    archive,        \* process -> the <timestamp>.zip of the run
    attempts,       \* process -> resource index -> calls of its step
    errlog,         \* process -> resources logged by logger.error
    collected,      \* process -> resources logged by logger.info
    exc,            \* process -> the exception propagating, or "none"
    popen,          \* process -> callbacks launched
    svclog,         \* process -> service commands issued and exit codes
    purged          \* process -> calls of purge_nodes

vars == << lockfile, live, services, pc, argv, skip_errors, idx, ip,
           staging, archive, attempts, errlog, collected, exc, popen,
           svclog, purged >>

\* ------------------------------------------------------------- the chains
PostgresResource == 1
EtcdResource == 2
SSHKeysResource == 3
EtcdCertResource == 4
KubeTokenResource == 5
LicenseResource == 6
SharedNginxConfigResource == 7

backup_chain ==
    << PostgresResource, EtcdResource, SSHKeysResource, EtcdCertResource,
       KubeTokenResource, LicenseResource, SharedNginxConfigResource >>

\* a variant: the restore steps run in the opposite order
restore_chain_reversed ==
    << SharedNginxConfigResource, LicenseResource, KubeTokenResource,
       EtcdCertResource, SSHKeysResource, EtcdResource, PostgresResource >>

\* restore_chain, lines 307-309
restore_chain ==
    << PostgresResource, EtcdResource, SSHKeysResource, EtcdCertResource,
       KubeTokenResource, LicenseResource, SharedNginxConfigResource >>

Resources == 1..7

I(op, a, b) == [op |-> op, a |-> a, b |-> b]

(***************************************************************************)
(* The capture steps, one instruction per file-system call:                *)
(*   mkstemp a      creates the empty file a                               *)
(*   mkdtemp a      creates the empty directory a                          *)
(*   pg_dump b      the dump tool writes the open file b                   *)
(*   fill a b       copies live a into the file b that already exists      *)
(*   create a b     opens live a and creates b (first half of shutil.copy  *)
(*                  and shutil.copytree, which create the target by name)  *)
(*   touch b        opens b for appending, creating it                     *)
(*   rename a b     os.rename of the file or directory a to b              *)
(*   isfile a       returns None from the step unless live a exists        *)
(*   lcreate, lfill as create and fill, for an entry of a listdir loop:    *)
(*                  nothing is done when live a does not exist             *)
(***************************************************************************)
PostgresResource_backup ==
    << I("mkstemp", <<>>, <<"postgres-.backup.in_progress">>),
       I("pg_dump", DATABASE, <<"postgres-.backup.in_progress">>),
       I("rename", "postgres-.backup.in_progress", "postgresql.backup") >>

EtcdResource_backup ==
    << I("mkdtemp", <<>>, <<"etcd--inprogress">>),
       I("lcreate", <<ETCD_DATA, "wal">>, <<"etcd--inprogress", "wal">>),
       I("lfill", <<ETCD_DATA, "wal">>, <<"etcd--inprogress", "wal">>),
       I("lcreate", <<ETCD_DATA, "snap">>, <<"etcd--inprogress", "snap">>),
       I("lfill", <<ETCD_DATA, "snap">>, <<"etcd--inprogress", "snap">>),
       I("touch", <<"etcd--inprogress", "snap">>,
                  <<"etcd--inprogress", "snap", "dummy">>),
       I("rename", "etcd--inprogress", "etcd") >>

SSHKeysResource_backup ==
    << I("mkstemp", <<>>, <<"ssh-key-.backup.in_progress">>),
       I("fill", SSH_KEY, <<"ssh-key-.backup.in_progress">>),
       I("create", SSH_KEY_PUB, <<"id_rsa.pub">>),
       I("fill", SSH_KEY_PUB, <<"id_rsa.pub">>),
       I("rename", "ssh-key-.backup.in_progress", "id_rsa") >>

EtcdCertResource_backup ==
    << I("mkdtemp", <<>>, <<"etcd-pki--inprogress">>),
       I("create", ETCD_PKI, <<"etcd-pki--inprogress", "certs">>),
       I("fill", ETCD_PKI, <<"etcd-pki--inprogress", "certs">>),
       I("rename", "etcd-pki--inprogress", "etcd_pki") >>

KubeTokenResource_backup ==
    << I("create", KNOWN_TOKENS, <<"known_tokens.csv">>),
       I("fill", KNOWN_TOKENS, <<"known_tokens.csv">>),
       I("create", NODE_CONFIGFILE, <<"configfile_for_nodes">>),
       I("fill", NODE_CONFIGFILE, <<"configfile_for_nodes">>) >>

LicenseResource_backup ==
    << I("isfile", LICENSE, <<>>),
       I("create", LICENSE, <<".license">>),
       I("fill", LICENSE, <<".license">>) >>

SharedNginxConfigResource_backup ==
    << I("mkdtemp", <<>>, <<"nginx-config--inprogress">>),
       I("create", config_src, <<"nginx-config--inprogress", "conf">>),
       I("fill", config_src, <<"nginx-config--inprogress", "conf">>),
       I("rename", "nginx-config--inprogress", "nginx_config") >>

backup(res) ==
    CASE res = PostgresResource -> PostgresResource_backup
      [] res = EtcdResource -> EtcdResource_backup
      [] res = SSHKeysResource -> SSHKeysResource_backup
      [] res = EtcdCertResource -> EtcdCertResource_backup
      [] res = KubeTokenResource -> KubeTokenResource_backup
      [] res = LicenseResource -> LicenseResource_backup
      [] res = SharedNginxConfigResource -> SharedNginxConfigResource_backup

\* os.rename(a, b) below the staging directory: the file a, or every file
\* of the directory a, is afterwards found under b
rename(st, a, b) ==
    [n \in StagingPaths |->
        IF n[1] = b THEN st[<<a>> \o Tail(n)]
        ELSE IF n[1] = a THEN "absent"
        ELSE st[n]]

\* One instruction of a capture step other than pg_dump: the staging
\* directory afterwards and how the instruction ends ("ok", "return" for a
\* return from the step, or the exception it raises).
capture(ins, st, lv) ==
    CASE ins.op = "mkstemp" ->
            [st |-> [st EXCEPT ![ins.b] = "partial"], out |-> "ok"]
      [] ins.op = "mkdtemp" ->
            [st |-> st, out |-> "ok"]
      [] ins.op = "fill" ->
            [st |-> [st EXCEPT ![ins.b] = lv[ins.a]], out |-> "ok"]
      [] ins.op = "create" ->
            IF lv[ins.a] = "absent"
            THEN [st |-> st, out |-> "IOError"]
            ELSE [st |-> [st EXCEPT ![ins.b] = "partial"], out |-> "ok"]
      [] ins.op = "lcreate" ->
            IF lv[ins.a] = "absent"
            THEN [st |-> st, out |-> "ok"]
            ELSE [st |-> [st EXCEPT ![ins.b] = "partial"], out |-> "ok"]
      [] ins.op = "lfill" ->
            IF st[ins.b] = "absent"
            THEN [st |-> st, out |-> "ok"]
            ELSE [st |-> [st EXCEPT ![ins.b] = lv[ins.a]], out |-> "ok"]
      [] ins.op = "touch" ->
            IF st[ins.a] = "absent"
            THEN [st |-> st, out |-> "IOError"]
            ELSE [st |-> [st EXCEPT ![ins.b] = "empty"], out |-> "ok"]
      [] ins.op = "rename" ->
            [st |-> rename(st, ins.a, ins.b), out |-> "ok"]
      [] ins.op = "isfile" ->
            [st |-> st, out |-> IF lv[ins.a] = "absent" THEN "return"
                                ELSE "ok"]

\* a variant: only the files directly below path are packed
zipdir_flat(st) ==
    { [name |-> n, data |-> st[n]] :
        n \in {m \in StagingPaths : st[m] # "absent" /\ Len(m) = 1} }

\* zipdir: every regular file below path becomes one member, named by its
\* path relative to path
zipdir(st) ==
    { [name |-> n, data |-> st[n]] : n \in {m \in StagingPaths : st[m] # "absent"} }

namelist(zip) == { m.name : m \in zip.members }

member(zip, n) == (CHOOSE m \in zip.members : m.name = n).data

NoArchive == [state |-> "absent", members |-> {}]

\* The staging directory after the steps i.. of a capture, when no call
\* fails: used for the archive an earlier backup has left on the disk.
RECURSIVE captured(_, _, _, _)
captured(prog, i, st, lv) ==
    IF i > Len(prog) THEN st
    ELSE IF prog[i].op = "pg_dump"
    THEN captured(prog, i + 1, [st EXCEPT ![prog[i].b] = "dump"], lv)
    ELSE captured(prog, i + 1, capture(prog[i], st, lv).st, lv)

RECURSIVE captured_chain(_, _, _)
captured_chain(i, st, lv) ==
    IF i > Len(backup_chain) THEN st
    ELSE captured_chain(i + 1, captured(backup(backup_chain[i]), 1, st, lv), lv)

\* archive 0: the archive of an earlier backup run in which every capture
\* returned; archive p, for a process p, is the one the run of p creates
earlier_archive ==
    [state |-> "closed",
     members |-> zipdir(captured_chain(1,
                    [NoFiles EXCEPT ![<<"main.log">>] = "log"],
                    [n \in LivePaths |-> "earlier"]))]

Archives == {0} \cup Procs

\* parse_args: the namespace handed to args.func
parse_skip_errors(skip_given) == ~skip_given

parse_args(a) ==
    [func |-> a.func, skip_errors |-> parse_skip_errors(a.skip),
     callback |-> a.callback, without_nodes |-> a.without_nodes,
     backup_file |-> a.backup_file]

NoArgs == [func |-> "none", skip |-> FALSE, callback |-> FALSE,
           without_nodes |-> FALSE, backup_file |-> 0, uid |-> 0]

\* The command lines and the uid of the caller.  The options a run reads
\* once, --callback, --without-nodes and the backup_file path, are drawn
\* where the run reads them and hold their default until then: their
\* values do not depend on the state, so this gives the same runs as
\* drawing them here.
CommandLines ==
    { [func |-> f, skip |-> s, callback |-> FALSE,
       without_nodes |-> FALSE, backup_file |-> 0, uid |-> 0] :
         f \in {"do_backup", "do_restore"}, s \in BOOLEAN }
    \cup
    { [func |-> "do_backup", skip |-> FALSE, callback |-> FALSE,
       without_nodes |-> FALSE, backup_file |-> 0, uid |-> 1000] }

\* The masters the script is started on: a complete one, one without the
\* optional license, one whose bootstrap tokens are missing, and those
\* whose etcd member directory lacks wal, snap or both.
Masters ==
    { [n \in LivePaths |-> IF n \in missing THEN "absent" ELSE "live"] :
        missing \in { {}, {LICENSE}, {KNOWN_TOKENS},
                      {<<ETCD_DATA, "wal">>}, {<<ETCD_DATA, "snap">>},
                      {<<ETCD_DATA, "wal">>, <<ETCD_DATA, "snap">>} } }

Init ==
    /\ lockfile = FALSE
    /\ live \in Masters
    /\ services = [s \in Services |-> "running"]
    /\ pc = [p \in Procs |-> "idle"]
    /\ argv = [p \in Procs |-> NoArgs]
    /\ skip_errors = [p \in Procs |-> FALSE]
    /\ idx = [p \in Procs |-> 0]
    /\ ip = [p \in Procs |-> 0]
    /\ staging = [p \in Procs |-> NoFiles]
    /\ archive = [a \in Archives |->
                    IF a = 0 THEN earlier_archive ELSE NoArchive]
    /\ attempts = [p \in Procs |-> [r \in Resources |-> 0]]
    /\ errlog = [p \in Procs |-> {}]
    /\ collected = [p \in Procs |-> {}]
    /\ exc = [p \in Procs |-> "none"]
    /\ popen = [p \in Procs |-> 0]
    /\ svclog = [p \in Procs |-> <<>>]
    /\ purged = [p \in Procs |-> 0]

\* main(): refuses to run unless root, parses the command line and calls
\* args.func, which is the wrapper the lock decorator returns
main(p) ==
    /\ pc[p] = "idle"
    /\ \E a \in CommandLines :
          /\ argv' = [argv EXCEPT ![p] = a]
          /\ IF a.uid # 0
             THEN /\ pc' = [pc EXCEPT ![p] = "raised"]
                  /\ exc' = [exc EXCEPT ![p] = "Exception"]
                  /\ UNCHANGED skip_errors
             ELSE /\ pc' = [pc EXCEPT ![p] = "wrapper"]
                  /\ skip_errors' =
                        [skip_errors EXCEPT ![p] = parse_args(a).skip_errors]
                  /\ UNCHANGED exc
    /\ UNCHANGED << lockfile, live, services, idx, ip, staging, archive,
                    attempts, errlog, collected, popen, svclog, purged >>

\* a variant: O_CREAT without O_EXCL opens the marker that exists
os_open_creat(exists) == TRUE

\* os.open(lockfile, O_CREAT | O_EXCL): creates the marker, or fails when
\* it exists
os_open_excl(exists) == ~exists

\* a variant: the marker is created inside the try block whose finally
\* clause unlinks it
wrapper_open_in_try(p) ==
    /\ pc[p] = "wrapper"
    /\ \A q \in Procs : q < p => pc[q] \notin {"idle", "wrapper"}
    /\ IF os_open_excl(lockfile)
       THEN /\ lockfile' = TRUE
            /\ pc' = [pc EXCEPT ![p] = argv[p].func]
            /\ UNCHANGED exc
       ELSE /\ pc' = [pc EXCEPT ![p] = "raised"]
            /\ exc' = [exc EXCEPT ![p] = "BackupError"]
            /\ lockfile' = FALSE
    /\ UNCHANGED << live, services, argv, skip_errors, idx, ip, staging,
                    archive, attempts, errlog, collected, popen, svclog,
                    purged >>

\* the invocations before p have made their call of os.open, or ended
\* before it
in_turn(p) == \A q \in Procs : q < p => pc[q] \notin {"idle", "wrapper"}

\* wrapper, lines 45-52: create the marker or raise BackupError
wrapper_open(p) ==
    /\ pc[p] = "wrapper"
    /\ in_turn(p)
    /\ IF os_open_excl(lockfile)
       THEN /\ lockfile' = TRUE
            /\ pc' = [pc EXCEPT ![p] = argv[p].func]
            /\ UNCHANGED exc
       ELSE /\ pc' = [pc EXCEPT ![p] = "raised"]
            /\ exc' = [exc EXCEPT ![p] = "BackupError"]
            /\ UNCHANGED lockfile
    /\ UNCHANGED << live, services, argv, skip_errors, idx, ip, staging,
                    archive, attempts, errlog, collected, popen, svclog,
                    purged >>

\* a variant: the marker is unlinked after the call, without a finally
\* clause
wrapper_no_finally(p) ==
    /\ pc[p] = "finally"
    /\ lockfile' = (exc[p] # "none")
    /\ pc' = [pc EXCEPT ![p] = IF exc[p] = "none" THEN "returned"
                                ELSE "raised"]
    /\ UNCHANGED << live, services, argv, skip_errors, idx, ip, staging,
                    archive, attempts, errlog, collected, exc, popen, svclog,
                    purged >>

\* wrapper, lines 53-57: the finally clause unlinks the marker, then the
\* result is returned or the exception goes on
wrapper_finally(p) ==
    /\ pc[p] = "finally"
    /\ lockfile' = FALSE
    /\ pc' = [pc EXCEPT ![p] = IF exc[p] = "none" THEN "returned"
                                ELSE "raised"]
    /\ UNCHANGED << live, services, argv, skip_errors, idx, ip, staging,
                    archive, attempts, errlog, collected, exc, popen, svclog,
                    purged >>


\* ---------------------------------------------------------------- do_backup
\* what the rest of the model leaves alone during a backup run
restore_state == << live, services, svclog, purged >>

\* do_backup, lines 315-323: the backup directory, the fresh staging
\* directory and the log file of the run inside it
do_backup_start(p) ==
    /\ pc[p] = "do_backup"
    /\ staging' = [staging EXCEPT ![p] = [NoFiles EXCEPT ![<<"main.log">>] = "log"]]
    /\ pc' = [pc EXCEPT ![p] = "backup_chain"]
    /\ idx' = [idx EXCEPT ![p] = 1]
    /\ ip' = [ip EXCEPT ![p] = 0]
    /\ UNCHANGED << lockfile, argv, skip_errors, archive, attempts, errlog,
                    collected, exc, popen >>
    /\ UNCHANGED restore_state

\* the position after the step of chain entry i is over
after_capture(i) ==
    IF i < Len(backup_chain) THEN "backup_chain" ELSE "zip_open"

\* do_backup, line 327: res.backup(backup_dst) is called
backup_call(p) ==
    /\ pc[p] = "backup_chain"
    /\ ip[p] = 0
    /\ attempts' = [attempts EXCEPT ![p][backup_chain[idx[p]]] = @ + 1]
    /\ ip' = [ip EXCEPT ![p] = 1]
    /\ UNCHANGED << lockfile, pc, argv, skip_errors, idx, staging, archive,
                    errlog, collected, exc, popen >>
    /\ UNCHANGED restore_state

\* variants: the policy flag is not consulted
skip_always(skip) == TRUE

skip_never(skip) == FALSE

\* `if not skip_errors: raise`, lines 331-332 and 396-397: whether the loop
\* goes on after an external-tool error
skip_policy(skip) == skip

\* a variant: the in-progress files are removed when the tool fails
backup_failed_cleanup(p, st) ==
    /\ staging' = [staging EXCEPT ![p] =
                     [n \in StagingPaths |->
                        IF n[1] \in TmpRoots THEN "absent" ELSE st[n]]]
    /\ errlog' = [errlog EXCEPT ![p] = @ \cup {backup_chain[idx[p]]}]
    /\ IF skip_policy(skip_errors[p])
       THEN /\ pc' = [pc EXCEPT ![p] = after_capture(idx[p])]
            /\ idx' = [idx EXCEPT ![p] = @ + 1]
            /\ ip' = [ip EXCEPT ![p] = 0]
            /\ UNCHANGED exc
       ELSE /\ pc' = [pc EXCEPT ![p] = "finally"]
            /\ exc' = [exc EXCEPT ![p] = "CalledProcessError"]
            /\ UNCHANGED << idx, ip >>

\* do_backup, lines 329-332: the except clause of the loop

backup_failed(p, st) ==
    /\ staging' = [staging EXCEPT ![p] = st]
    /\ errlog' = [errlog EXCEPT ![p] = @ \cup {backup_chain[idx[p]]}]
    /\ IF skip_policy(skip_errors[p])
       THEN /\ pc' = [pc EXCEPT ![p] = after_capture(idx[p])]
            /\ idx' = [idx EXCEPT ![p] = @ + 1]
            /\ ip' = [ip EXCEPT ![p] = 0]
            /\ UNCHANGED exc
       ELSE /\ pc' = [pc EXCEPT ![p] = "finally"]
            /\ exc' = [exc EXCEPT ![p] = "CalledProcessError"]
            /\ UNCHANGED << idx, ip >>

\* a variant: the staging directory is removed when the run fails
backup_raised_rmtree(p, st, e) ==
    /\ staging' = [staging EXCEPT ![p] = NoFiles]
    /\ pc' = [pc EXCEPT ![p] = "finally"]
    /\ exc' = [exc EXCEPT ![p] = e]
    /\ UNCHANGED << idx, ip, errlog >>

\* any other exception leaves the loop and do_backup
backup_raised(p, st, e) ==
    /\ staging' = [staging EXCEPT ![p] = st]
    /\ pc' = [pc EXCEPT ![p] = "finally"]
    /\ exc' = [exc EXCEPT ![p] = e]
    /\ UNCHANGED << idx, ip, errlog >>

\* one file-system call of the capture step in progress
backup_instr(p) ==
    /\ pc[p] = "backup_chain"
    /\ ip[p] \in 1..Len(backup(backup_chain[idx[p]]))
    /\ LET prog == backup(backup_chain[idx[p]])
           ins == prog[ip[p]]
       IN  IF ins.op = "pg_dump"
           THEN \E rc \in {0, 1} :
                  IF rc = 0
                  THEN /\ staging' = [staging EXCEPT ![p][ins.b] = "dump"]
                       /\ ip' = [ip EXCEPT ![p] = @ + 1]
                       /\ UNCHANGED << pc, idx, errlog, exc >>
                  ELSE backup_failed(p, staging[p])
           ELSE LET r == capture(ins, staging[p], live)
                IN  IF r.out \in {"ok", "return"}
                    THEN /\ staging' = [staging EXCEPT ![p] = r.st]
                         /\ ip' = [ip EXCEPT ![p] =
                                     IF r.out = "ok" THEN @ + 1
                                     ELSE Len(prog) + 1]
                         /\ UNCHANGED << pc, idx, errlog, exc >>
                    ELSE backup_raised(p, r.st, r.out)
    /\ UNCHANGED << lockfile, argv, skip_errors, archive, attempts,
                    collected, popen >>
    /\ UNCHANGED restore_state

\* do_backup, line 328: the step returned, its result is logged
backup_return(p) ==
    /\ pc[p] = "backup_chain"
    /\ ip[p] = Len(backup(backup_chain[idx[p]])) + 1
    /\ collected' = [collected EXCEPT ![p] = @ \cup {backup_chain[idx[p]]}]
    /\ pc' = [pc EXCEPT ![p] = after_capture(idx[p])]
    /\ idx' = [idx EXCEPT ![p] = @ + 1]
    /\ ip' = [ip EXCEPT ![p] = 0]
    /\ UNCHANGED << lockfile, argv, skip_errors, staging, archive, attempts,
                    errlog, exc, popen >>
    /\ UNCHANGED restore_state

\* do_backup, lines 334-335: ZipFile(result, 'w') creates the archive file
zip_open(p) ==
    /\ pc[p] = "zip_open"
    /\ archive' = [archive EXCEPT ![p] = [state |-> "open", members |-> {}]]
    /\ pc' = [pc EXCEPT ![p] = "zip_write"]
    /\ UNCHANGED << lockfile, argv, skip_errors, idx, ip, staging, attempts,
                    errlog, collected, exc, popen >>
    /\ UNCHANGED restore_state

\* do_backup, line 336 and the end of the with block: the staging directory
\* is packed and the archive closed
zip_write(p) ==
    /\ pc[p] = "zip_write"
    /\ archive' = [archive EXCEPT ![p] =
                     [state |-> "closed", members |-> zipdir(staging[p])]]
    /\ pc' = [pc EXCEPT ![p] = "callback"]
    /\ UNCHANGED << lockfile, argv, skip_errors, idx, ip, staging, attempts,
                    errlog, collected, exc, popen >>
    /\ UNCHANGED restore_state

\* a variant: the callback is waited for and its exit code checked
backup_finish_check_call(p) ==
    /\ pc[p] = "callback"
    /\ \E callback \in BOOLEAN, rc \in {0, 1} :
          /\ argv' = [argv EXCEPT ![p].callback = callback]
          /\ popen' = [popen EXCEPT ![p] = IF callback THEN @ + 1 ELSE @]
          /\ exc' = [exc EXCEPT ![p] = IF callback /\ rc # 0
                                       THEN "CalledProcessError" ELSE @]
    /\ pc' = [pc EXCEPT ![p] = "finally"]
    /\ UNCHANGED << lockfile, skip_errors, idx, ip, staging, archive,
                    attempts, errlog, collected >>
    /\ UNCHANGED restore_state

\* do_backup, lines 338-342: the callback is launched and not waited for,
\* the archive path is returned
backup_finish(p) ==
    /\ pc[p] = "callback"
    /\ \E callback \in BOOLEAN :
          /\ argv' = [argv EXCEPT ![p].callback = callback]
          /\ popen' = [popen EXCEPT ![p] = IF callback THEN @ + 1 ELSE @]
    /\ pc' = [pc EXCEPT ![p] = "finally"]
    /\ UNCHANGED << lockfile, skip_errors, idx, ip, staging, archive,
                    attempts, errlog, collected, exc >>
    /\ UNCHANGED restore_state

\* --------------------------------------------------------------- do_restore
(***************************************************************************)
(* The restore steps, one instruction per call that can fail or write:     *)
(*   open a         zip_archive.open(a), copied to a temporary file        *)
(*   pg_restore a b the restore tool loads member a into the database b    *)
(*   listdir a      os.listdir of the extracted directory a                *)
(*   lput a b       copies the extracted a over live b, for an entry of a  *)
(*                  listdir loop (nothing is done when a was not packed)   *)
(*   rmtree a b     the try block removing live a, then live b             *)
(*   copytree a b   shutil.copytree of the extracted a to live b, for an   *)
(*                  entry of a listdir loop                                *)
(*   wopen b        open(b, 'w') truncates live b                          *)
(*   put a b        copies member a into the open live file b              *)
(*   has a          returns from the step unless a is in namelist()        *)
(***************************************************************************)
PostgresResource_restore ==
    << I("open", <<"postgresql.backup">>, <<>>),
       I("pg_restore", <<"postgresql.backup">>, DATABASE) >>

\* a variant: the store's restore step leaves the certificates alone
EtcdResource_restore_data_only ==
    << I("rmtree", <<ETCD_DATA, "wal">>, <<ETCD_DATA, "snap">>),
       I("listdir", "etcd", <<>>),
       I("copytree", <<"etcd", "wal">>, <<ETCD_DATA, "wal">>),
       I("copytree", <<"etcd", "snap">>, <<ETCD_DATA, "snap">>) >>

\* EtcdResource.restore, lines 164-195
EtcdResource_restore ==
    << I("listdir", "etcd_pki", <<>>),
       I("lput", <<"etcd_pki", "certs">>, ETCD_PKI),
       I("rmtree", <<ETCD_DATA, "wal">>, <<ETCD_DATA, "snap">>),
       I("listdir", "etcd", <<>>),
       I("copytree", <<"etcd", "wal">>, <<ETCD_DATA, "wal">>),
       I("copytree", <<"etcd", "snap">>, <<ETCD_DATA, "snap">>) >>

SSHKeysResource_restore ==
    << I("wopen", <<>>, SSH_KEY),
       I("put", <<"id_rsa">>, SSH_KEY),
       I("wopen", <<>>, SSH_KEY_PUB),
       I("put", <<"id_rsa.pub">>, SSH_KEY_PUB) >>

EtcdCertResource_restore == << >>

KubeTokenResource_restore ==
    << I("wopen", <<>>, KNOWN_TOKENS),
       I("put", <<"known_tokens.csv">>, KNOWN_TOKENS),
       I("wopen", <<>>, NODE_CONFIGFILE),
       I("put", <<"configfile_for_nodes">>, NODE_CONFIGFILE) >>

\* a variant: the license is written without looking for its archive entry
LicenseResource_restore_unguarded ==
    << I("wopen", <<>>, LICENSE),
       I("put", <<".license">>, LICENSE) >>

\* LicenseResource.restore, lines 267-271
LicenseResource_restore ==
    << I("has", <<".license">>, <<>>),
       I("wopen", <<>>, LICENSE),
       I("put", <<".license">>, LICENSE) >>

SharedNginxConfigResource_restore ==
    << I("listdir", "nginx_config", <<>>),
       I("lput", <<"nginx_config", "conf">>, config_src) >>

restore(res) ==
    CASE res = PostgresResource -> PostgresResource_restore
      [] res = EtcdResource -> EtcdResource_restore
      [] res = SSHKeysResource -> SSHKeysResource_restore
      [] res = EtcdCertResource -> EtcdCertResource_restore
      [] res = KubeTokenResource -> KubeTokenResource_restore
      [] res = LicenseResource -> LicenseResource_restore
      [] res = SharedNginxConfigResource -> SharedNginxConfigResource_restore

\* One instruction of a restore step other than pg_restore: the live files
\* afterwards and how the instruction ends.
restoring(ins, zip, lv) ==
    CASE ins.op = "open" ->
            [lv |-> lv, out |-> IF ins.a \in namelist(zip) THEN "ok"
                                ELSE "KeyError"]
      [] ins.op = "listdir" ->
            [lv |-> lv, out |-> IF \E n \in namelist(zip) : n[1] = ins.a
                                THEN "ok" ELSE "OSError"]
      [] ins.op = "lput" ->
            IF ins.a \in namelist(zip)
            THEN [lv |-> [lv EXCEPT ![ins.b] = member(zip, ins.a)],
                  out |-> "ok"]
            ELSE [lv |-> lv, out |-> "ok"]
      [] ins.op = "rmtree" ->
            IF lv[ins.a] = "absent"
            THEN [lv |-> lv, out |-> "ok"]
            ELSE [lv |-> [lv EXCEPT ![ins.a] = "absent", ![ins.b] = "absent"],
                  out |-> "ok"]
      [] ins.op = "copytree" ->
            IF ins.a \notin namelist(zip)
            THEN [lv |-> lv, out |-> "ok"]
            ELSE IF lv[ins.b] # "absent"
            THEN [lv |-> lv, out |-> "OSError"]
            ELSE [lv |-> [lv EXCEPT ![ins.b] = member(zip, ins.a)],
                  out |-> "ok"]
      [] ins.op = "wopen" ->
            [lv |-> [lv EXCEPT ![ins.b] = "partial"], out |-> "ok"]
      [] ins.op = "put" ->
            IF ins.a \in namelist(zip)
            THEN [lv |-> [lv EXCEPT ![ins.b] = member(zip, ins.a)],
                  out |-> "ok"]
            ELSE [lv |-> lv, out |-> "KeyError"]
      [] ins.op = "has" ->
            [lv |-> lv, out |-> IF ins.a \in namelist(zip) THEN "ok"
                                ELSE "return"]

\* the service commands of do_restore, lines 387-388 and 400-405
pre_commands ==
    << [verb |-> "restart", units |-> {"postgresql"}],
       [verb |-> "stop", units |-> {"etcd", "kube-apiserver"}] >>

\* a variant: the API server is started before the store
post_commands_api_first ==
    << [verb |-> "start", units |-> {"kube-apiserver"}],
       [verb |-> "start", units |-> {"etcd"}],
       [verb |-> "restart", units |-> {"nginx"}],
       [verb |-> "restart", units |-> {"emperor.uwsgi"}] >>

\* do_restore, lines 400-405
post_commands ==
    << [verb |-> "start", units |-> {"etcd"}],
       [verb |-> "start", units |-> {"kube-apiserver"}],
       [verb |-> "restart", units |-> {"nginx"}],
       [verb |-> "restart", units |-> {"emperor.uwsgi"}] >>

\* the services after a systemctl command that succeeded
systemctl(cmd, svc) ==
    [s \in Services |->
        IF s \in cmd.units
        THEN (IF cmd.verb = "stop" THEN "stopped" ELSE "running")
        ELSE svc[s]]

\* what the rest of the model leaves alone during a restore run
backup_state == << staging, archive, popen >>

\* a variant: under the skip policy a failing service command is passed over
service_command_skippable(p, cmds, then) ==
    LET cmd == cmds[idx[p] + 1]
    IN  \E rc \in {0, 1} :
          /\ svclog' = [svclog EXCEPT ![p] =
                           Append(@, [cmd |-> cmd, rc |-> rc])]
          /\ IF rc = 0 \/ skip_errors[p]
             THEN /\ services' = IF rc = 0 THEN systemctl(cmd, services)
                                           ELSE services
                  /\ pc' = [pc EXCEPT ![p] =
                              IF idx[p] + 1 = Len(cmds) THEN then ELSE @]
                  /\ idx' = [idx EXCEPT ![p] =
                               IF idx[p] + 1 = Len(cmds) THEN 0 ELSE @ + 1]
                  /\ UNCHANGED exc
             ELSE /\ pc' = [pc EXCEPT ![p] = "finally"]
                  /\ exc' = [exc EXCEPT ![p] = "CalledProcessError"]
                  /\ UNCHANGED << services, idx >>

\* a service command: it is issued, and it succeeds or exits non-zero, which
\* check_call raises outside any try block
service_command(p, cmds, then) ==
    LET cmd == cmds[idx[p] + 1]
    IN  \E rc \in {0, 1} :
          /\ svclog' = [svclog EXCEPT ![p] =
                           Append(@, [cmd |-> cmd, rc |-> rc])]
          /\ IF rc = 0
             THEN /\ services' = systemctl(cmd, services)
                  /\ pc' = [pc EXCEPT ![p] =
                              IF idx[p] + 1 = Len(cmds) THEN then ELSE @]
                  /\ idx' = [idx EXCEPT ![p] =
                               IF idx[p] + 1 = Len(cmds) THEN 0 ELSE @ + 1]
                  /\ UNCHANGED exc
             ELSE /\ pc' = [pc EXCEPT ![p] = "finally"]
                  /\ exc' = [exc EXCEPT ![p] = "CalledProcessError"]
                  /\ UNCHANGED << services, idx >>

\* do_restore, lines 387-388
restore_pre(p) ==
    /\ pc[p] = "do_restore"
    /\ service_command(p, pre_commands, "restore_open")
    /\ UNCHANGED << lockfile, live, argv, skip_errors, ip, attempts, errlog,
                    collected, purged >>
    /\ UNCHANGED backup_state

\* do_restore, line 389: the archive is opened for reading
restore_open(p) ==
    /\ pc[p] = "restore_open"
    /\ \E backup_file \in Archives :
          /\ argv' = [argv EXCEPT ![p].backup_file = backup_file]
          /\ IF archive[backup_file].state = "closed"
             THEN /\ pc' = [pc EXCEPT ![p] = "restore_chain"]
                  /\ idx' = [idx EXCEPT ![p] = 1]
                  /\ ip' = [ip EXCEPT ![p] = 0]
                  /\ UNCHANGED exc
             ELSE /\ pc' = [pc EXCEPT ![p] = "finally"]
                  /\ exc' = [exc EXCEPT ![p] = "IOError"]
                  /\ UNCHANGED << idx, ip >>
    /\ UNCHANGED << lockfile, live, services, skip_errors, attempts,
                    errlog, collected, svclog, purged >>
    /\ UNCHANGED backup_state

\* the position after the step of chain entry i is over
after_restore(i) ==
    IF i < Len(restore_chain) THEN "restore_chain" ELSE "restore_post"

next_restore(p) ==
    /\ pc' = [pc EXCEPT ![p] = after_restore(idx[p])]
    /\ idx' = [idx EXCEPT ![p] = IF @ < Len(restore_chain) THEN @ + 1 ELSE 0]
    /\ ip' = [ip EXCEPT ![p] = 0]

\* do_restore, line 392: res.restore(zip_archive) is called
restore_call(p) ==
    /\ pc[p] = "restore_chain"
    /\ ip[p] = 0
    /\ attempts' = [attempts EXCEPT ![p][restore_chain[idx[p]]] = @ + 1]
    /\ ip' = [ip EXCEPT ![p] = 1]
    /\ UNCHANGED << lockfile, live, services, pc, argv, skip_errors, idx,
                    errlog, collected, exc, svclog, purged >>
    /\ UNCHANGED backup_state

\* do_restore, lines 394-397: the except clause of the loop
restore_failed(p) ==
    /\ errlog' = [errlog EXCEPT ![p] = @ \cup {restore_chain[idx[p]]}]
    /\ IF skip_policy(skip_errors[p])
       THEN /\ next_restore(p)
            /\ UNCHANGED exc
       ELSE /\ pc' = [pc EXCEPT ![p] = "finally"]
            /\ exc' = [exc EXCEPT ![p] = "CalledProcessError"]
            /\ UNCHANGED << idx, ip >>

\* a variant: the loop catches every exception
restore_raised_caught(p, e) == restore_failed(p)

\* a variant: the services are started again after a step has raised
restore_raised_restart(p, e) ==
    /\ pc' = [pc EXCEPT ![p] = "restore_post"]
    /\ exc' = [exc EXCEPT ![p] = e]
    /\ idx' = [idx EXCEPT ![p] = 0]
    /\ UNCHANGED << ip, errlog >>

\* any other exception leaves the loop and do_restore
restore_raised(p, e) ==
    /\ pc' = [pc EXCEPT ![p] = "finally"]
    /\ exc' = [exc EXCEPT ![p] = e]
    /\ UNCHANGED << idx, ip, errlog >>

\* one call of the restore step in progress
restore_instr(p) ==
    /\ pc[p] = "restore_chain"
    /\ ip[p] \in 1..Len(restore(restore_chain[idx[p]]))
    /\ LET prog == restore(restore_chain[idx[p]])
           ins == prog[ip[p]]
           zip == archive[argv[p].backup_file]
       IN  IF ins.op = "pg_restore"
           THEN \E rc \in {0, 1} :
                  IF rc = 0
                  THEN /\ live' = [live EXCEPT ![ins.b] = member(zip, ins.a)]
                       /\ ip' = [ip EXCEPT ![p] = @ + 1]
                       /\ UNCHANGED << pc, idx, errlog, exc >>
                  ELSE /\ restore_failed(p)
                       /\ UNCHANGED live
           ELSE LET r == restoring(ins, zip, live)
                IN  /\ live' = r.lv
                    /\ IF r.out \in {"ok", "return"}
                       THEN /\ ip' = [ip EXCEPT ![p] =
                                        IF r.out = "ok" THEN @ + 1
                                        ELSE Len(prog) + 1]
                            /\ UNCHANGED << pc, idx, errlog, exc >>
                       ELSE restore_raised(p, r.out)
    /\ UNCHANGED << lockfile, services, argv, skip_errors, attempts,
                    collected, svclog, purged >>
    /\ UNCHANGED backup_state

\* do_restore, line 393: the step returned, its result is logged
restore_return(p) ==
    /\ pc[p] = "restore_chain"
    /\ ip[p] = Len(restore(restore_chain[idx[p]])) + 1
    /\ collected' = [collected EXCEPT ![p] = @ \cup {restore_chain[idx[p]]}]
    /\ next_restore(p)
    /\ UNCHANGED << lockfile, live, services, argv, skip_errors, attempts,
                    errlog, exc, svclog, purged >>
    /\ UNCHANGED backup_state

\* do_restore, lines 400-405
restore_post(p) ==
    /\ pc[p] = "restore_post"
    /\ service_command(p, post_commands, "purge_nodes")
    /\ UNCHANGED << lockfile, live, argv, skip_errors, ip, attempts, errlog,
                    collected, purged >>
    /\ UNCHANGED backup_state

\* do_restore, lines 407-410: the cleanup of the nodes, when asked for
restore_finish(p) ==
    /\ pc[p] = "purge_nodes"
    /\ pc' = [pc EXCEPT ![p] = "finally"]
    /\ \E without_nodes \in BOOLEAN :
          /\ argv' = [argv EXCEPT ![p].without_nodes = without_nodes]
          /\ IF without_nodes
             THEN /\ purged' = [purged EXCEPT ![p] = @ + 1]
                  /\ \E raised \in BOOLEAN :
                       exc' = [exc EXCEPT ![p] =
                                 IF raised THEN "Exception" ELSE @]
             ELSE UNCHANGED << purged, exc >>
    /\ UNCHANGED << lockfile, live, services, skip_errors, idx, ip,
                    attempts, errlog, collected, svclog >>
    /\ UNCHANGED backup_state

Next ==
    \E p \in Procs :
        \/ main(p)
        \/ wrapper_open(p)
        \/ wrapper_finally(p)
        \/ do_backup_start(p)
        \/ backup_call(p)
        \/ backup_instr(p)
        \/ backup_return(p)
        \/ zip_open(p)
        \/ zip_write(p)
        \/ backup_finish(p)
        \/ restore_pre(p)
        \/ restore_open(p)
        \/ restore_call(p)
        \/ restore_instr(p)
        \/ restore_return(p)
        \/ restore_post(p)
        \/ restore_finish(p)

Spec == Init /\ [][Next]_vars


\* ------------------------------------------------------------------ claims
\* the service commands a run has issued, in order
issued(p) == [i \in 1..Len(svclog[p]) |-> svclog[p][i].cmd]

\* a process is inside the guarded operation from the creation of the
\* marker until the wrapper has left its finally clause
InGuard(p) == pc[p] \notin {"idle", "wrapper", "returned", "raised"}

Ended(p) == pc[p] \in {"returned", "raised"}

\* the exceptions of a resource step that are no external-tool failure
OtherErrors == {"IOError", "OSError", "KeyError"}

pos(chain, r) == CHOOSE i \in 1..Len(chain) : chain[i] = r

chain_of(p) ==
    IF argv[p].func = "do_backup" THEN backup_chain ELSE restore_chain

\* the run of p is past the call of its first resource step
ChainStarted(p) == attempts[p][chain_of(p)[1]] > 0

\* a resource step of the run of p failed: with an external-tool error, or
\* with another exception
StepFailed(p) ==
    \/ errlog[p] # {}
    \/ ChainStarted(p) /\ exc[p] \in OtherErrors

\* the outputs a capture step that returned has left at their final names
\* (the license output is optional)
outputs(res) ==
    CASE res = PostgresResource -> { <<"postgresql.backup">> }
      [] res = EtcdResource ->
            { <<"etcd", "snap">>, <<"etcd", "snap", "dummy">> }
      [] res = SSHKeysResource -> { <<"id_rsa">>, <<"id_rsa.pub">> }
      [] res = EtcdCertResource -> { <<"etcd_pki", "certs">> }
      [] res = KubeTokenResource ->
            { <<"known_tokens.csv">>, <<"configfile_for_nodes">> }
      [] res = LicenseResource -> { }
      [] res = SharedNginxConfigResource -> { <<"nginx_config", "conf">> }

\* the final names of the staging directory: all but the in-progress names
\* and the log of the run
FinalPaths ==
    { n \in StagingPaths : n[1] \notin TmpRoots /\ n # <<"main.log">> }

\* C1: at most one run, backup or restore, is inside the guarded operation
\* at any instant.
C1_MutualExclusion ==
    \A p, q \in Procs : p # q => ~(InGuard(p) /\ InGuard(q))

\* one run is inside a backup while another was turned away, and a restore
\* was turned away by a backup or a backup by a restore
C1_Witness ==
    \E p, q \in Procs :
        /\ InGuard(p) /\ lockfile
        /\ pc[q] = "raised" /\ exc[q] = "BackupError"
        /\ argv[p].func # argv[q].func

\* C2: when a run that created the marker leaves the guarded operation, by
\* return or by any exception, the marker does not exist afterwards.
C2_MarkerRemovedOnExit ==
    [][\A p \in Procs : (InGuard(p) /\ ~InGuard(p)') => ~lockfile']_vars

\* runs have left by return and by an exception of a resource step
C2_Witness ==
    /\ ~lockfile
    /\ \E p, q \in Procs :
          /\ pc[p] = "returned"
          /\ pc[q] = "raised" /\ exc[q] \in OtherErrors

\* C3: an attempt made while the marker exists ends at once with the
\* already-running error, runs no step of the guarded operation, is not
\* tried again, and leaves the marker in place.
C3_FailFast ==
    [][\A p \in Procs :
         /\ (pc[p] = "wrapper" /\ lockfile /\ pc'[p] # pc[p]) =>
               /\ pc'[p] = "raised" /\ exc'[p] = "BackupError"
               /\ lockfile'
               /\ UNCHANGED << live, services, staging, archive, attempts,
                               svclog, popen, purged >>
         /\ (pc[p] = "raised" /\ exc[p] = "BackupError") =>
               /\ pc'[p] = "raised"
               /\ staging[p] = NoFiles /\ archive[p] = NoArchive
               /\ svclog[p] = << >> /\ popen[p] = 0 /\ purged[p] = 0
               /\ \A r \in Resources : attempts[p][r] = 0]_vars

\* a run was turned away while another is in the middle of its chain
C3_Witness ==
    \E p, q \in Procs :
        /\ pc[p] \in {"backup_chain", "restore_chain"} /\ idx[p] > 1
        /\ lockfile
        /\ pc[q] = "raised" /\ exc[q] = "BackupError"

\* C4: under the abort policy the first failing resource step is the last
\* step of the chain that is called, and the failure leaves the run.
C4_AbortHalts ==
    \A p \in Procs :
        (~skip_errors[p] /\ StepFailed(p)) =>
            /\ pc[p] \in {"finally", "raised"}
            /\ exc[p] \in OtherErrors \cup {"CalledProcessError"}
            /\ \A r \in Resources :
                  /\ attempts[p][r] <= 1
                  /\ pos(chain_of(p), r) > idx[p] => attempts[p][r] = 0
            /\ \A f \in errlog[p] : pos(chain_of(p), f) = idx[p]

\* an abort-policy restore was ended by the restore tool, an abort-policy
\* backup by the dump tool
C4_Witness ==
    \E p, q \in Procs :
        /\ argv[p].func = "do_restore" /\ ~skip_errors[p]
        /\ errlog[p] = {PostgresResource} /\ pc[p] = "raised"
        /\ issued(p) = pre_commands
        /\ argv[q].func = "do_backup" /\ ~skip_errors[q]
        /\ errlog[q] = {PostgresResource} /\ pc[q] = "raised"

C6_SkipIffFlag ==
    \A p \in Procs :
        pc[p] \notin {"idle", "raised"} => (skip_errors[p] <=> argv[p].skip)

\* C7: no output of a capture step is ever found half-written under its
\* final name in the staging directory.
C7_CaptureAtomic ==
    \A p \in Procs : \A n \in FinalPaths : staging[p][n] # "partial"

\* C8: an abort-policy backup in which a capture failed creates no archive,
\* launches no callback, and keeps in the staging directory the outputs of
\* the captures that had returned.
C8_AbortKeepsStaging ==
    \A p \in Procs :
        (argv[p].func = "do_backup" /\ ~skip_errors[p] /\ StepFailed(p)) =>
            /\ archive[p].state = "absent"
            /\ popen[p] = 0
            /\ pc[p] # "returned"
            /\ \A r \in collected[p] : \A n \in outputs(r) :
                  staging[p][n] \notin {"absent", "partial"}

\* an abort-policy backup has ended on the capture of the
\* bootstrap files, after four captures had returned
C8_Witness ==
    \E p \in Procs :
        /\ argv[p].func = "do_backup" /\ ~skip_errors[p]
        /\ pc[p] = "raised" /\ exc[p] = "IOError"
        /\ idx[p] = pos(backup_chain, KubeTokenResource)
        /\ collected[p] = { PostgresResource, EtcdResource, SSHKeysResource,
                            EtcdCertResource }

\* C9: a skip-policy backup whose captures failed with external-tool errors
\* only returns, and its archive holds, unchanged, every output of every
\* capture that returned.
C9_SkipBackupCompletes ==
    \A p \in Procs :
        (argv[p].func = "do_backup" /\ skip_errors[p] /\ errlog[p] # {}) =>
            /\ (pc[p] = "raised" => exc[p] \in OtherErrors)
            /\ (pc[p] = "returned" =>
                  /\ exc[p] = "none"
                  /\ archive[p].state = "closed"
                  /\ \A r \in collected[p] : \A n \in outputs(r) :
                        /\ n \in namelist(archive[p])
                        /\ member(archive[p], n) = staging[p][n]
                        /\ staging[p][n] \notin {"absent", "partial"})

\* a skip-policy backup has returned after the dump tool failed and the six
\* other captures returned
C9_Witness ==
    \E p \in Procs :
        /\ argv[p].func = "do_backup" /\ skip_errors[p]
        /\ pc[p] = "returned"
        /\ errlog[p] = {PostgresResource}
        /\ collected[p] = Resources \ {PostgresResource}

\* C10, as stated: every member of an archive is the final-named output of
\* a capture.
C10_OnlyOutputs ==
    \A p \in Procs :
        archive[p].state = "closed" => namelist(archive[p]) \subseteq FinalPaths

\* C10, amended: an archive holds exactly the files of the staging
\* directory: the log of the run, the final-named files, each left by a
\* capture that returned, and, when the dump tool failed under the skip
\* policy, the in-progress file of the dump; no other in-progress name.
C10_ArchiveIsStaging ==
    \A p \in Procs :
        archive[p].state = "closed" =>
            /\ namelist(archive[p]) =
                  { n \in StagingPaths : staging[p][n] # "absent" }
            /\ <<"main.log">> \in namelist(archive[p])
            /\ \A n \in namelist(archive[p]) :
                  \/ n = <<"main.log">>
                  \/ n \in FinalPaths /\ member(archive[p], n) # "partial"
                  \/ /\ n = <<"postgres-.backup.in_progress">>
                     /\ PostgresResource \in errlog[p] /\ skip_errors[p]
            /\ (PostgresResource \in errlog[p] <=>
                  <<"postgres-.backup.in_progress">> \in namelist(archive[p]))
            /\ (PostgresResource \in errlog[p] <=>
                  <<"postgresql.backup">> \notin namelist(archive[p]))

\* an archive was closed after the dump tool had failed, and another after
\* every capture returned
C10_Witness ==
    \E p, q \in Procs :
        /\ archive[p].state = "closed" /\ errlog[p] = {PostgresResource}
        /\ archive[q].state = "closed" /\ errlog[q] = {}


\* a sequence is the beginning of another
IsPrefix(s, t) == Len(s) <= Len(t) /\ SubSeq(t, 1, Len(s)) = s

\* C11: in a restore run the database restart and the stop of the store and
\* the API server come before the first resource step; the store is started
\* after the last resource step, the API server after the store, the proxy
\* and the application server after the API server, the cleanup of the nodes
\* last.
C11_RestoreOrder ==
    [](
      \A p \in Procs :
          argv[p].func = "do_restore" =>
              /\ IsPrefix(issued(p),
                    << [verb |-> "restart", units |-> {"postgresql"}],
                       [verb |-> "stop", units |-> {"etcd", "kube-apiserver"}],
                       [verb |-> "start", units |-> {"etcd"}],
                       [verb |-> "start", units |-> {"kube-apiserver"}],
                       [verb |-> "restart", units |-> {"nginx"}],
                       [verb |-> "restart", units |-> {"emperor.uwsgi"}] >>)
              /\ ChainStarted(p) => Len(svclog[p]) >= 2
              /\ (pc[p] = "restore_chain" /\ InGuard(p)) =>
                    /\ Len(svclog[p]) = 2
                    /\ services["etcd"] = "stopped"
                    /\ services["kube-apiserver"] = "stopped"
              /\ Len(svclog[p]) > 2 =>
                    /\ pc[p] # "restore_chain"
                    /\ \A r \in Resources : attempts[p][r] = 1
              /\ purged[p] > 0 =>
                    /\ Len(svclog[p]) = 6
                    /\ pc[p] \in {"finally", "returned", "raised"}
                    /\ \A r \in Resources : attempts[p][r] = 1
    )

\* a restore run has gone through all its commands, its seven steps and
\* the cleanup of the nodes
C11_Witness ==
    \E p \in Procs :
        /\ argv[p].func = "do_restore" /\ pc[p] = "returned"
        /\ purged[p] = 1 /\ Len(svclog[p]) = 6
        /\ collected[p] = Resources


\* C12: a service command of a restore run that exits non-zero ends the run
\* under either policy: it is the last command the run issues, the error is
\* the run's exception, and no resource step and no cleanup of the nodes
\* comes after it.
C12_ServiceFailureFatal ==
    [](
      \A p \in Procs :
          \A i \in 1..Len(svclog[p]) :
              svclog[p][i].rc # 0 =>
                  /\ i = Len(svclog[p])
                  /\ pc[p] \in {"finally", "raised"}
                  /\ exc[p] = "CalledProcessError"
                  /\ purged[p] = 0
                  /\ i <= 2 => \A r \in Resources : attempts[p][r] = 0
    )

\* service commands have failed under both policies: one before the steps of
\* a run that aborts on errors, one after the steps of a run that skips them
C12_Witness ==
    \E p, q \in Procs :
        /\ ~skip_errors[p] /\ pc[p] = "raised"
        /\ Len(svclog[p]) = 2 /\ svclog[p][2].rc # 0
        /\ skip_errors[q] /\ pc[q] = "finally"
        /\ Len(svclog[q]) = 3 /\ svclog[q][3].rc # 0
        /\ errlog[q] # {}


\* C13: the steps of a run are invoked one at a time in the order database,
\* key-value store, SSH keys, store certificates, token and node
\* configuration, license, proxy configuration, the same for a backup run
\* and for a restore run: at every moment the steps invoked so far are a
\* beginning of that order, and only the last of them can be unfinished.
C13_ChainOrder ==
    [](
      LET order == << PostgresResource, EtcdResource, SSHKeysResource,
                      EtcdCertResource, KubeTokenResource, LicenseResource,
                      SharedNginxConfigResource >>
      IN  \A p \in Procs :
              /\ \A r \in Resources : attempts[p][r] <= 1
              /\ \A i \in 1..6 :
                    attempts[p][order[i + 1]] > 0 =>
                        /\ attempts[p][order[i]] > 0
                        /\ order[i] \in collected[p] \cup errlog[p]
              /\ (pc[p] \in {"backup_chain", "restore_chain"} /\ ip[p] > 0)
                    => LET r == chain_of(p)[idx[p]]
                       IN  /\ attempts[p][r] > 0
                           /\ r \notin collected[p] \cup errlog[p]
    )

\* a backup run has invoked its seven steps, and a restore run over the
\* archive it produced has invoked its seven steps as well
C13_Witness ==
    \E p, q \in Procs :
        /\ argv[p].func = "do_backup" /\ pc[p] = "returned"
        /\ collected[p] = Resources
        /\ argv[q].func = "do_restore" /\ pc[q] = "returned"
        /\ argv[q].backup_file = p
        /\ collected[q] = Resources


\* C14: the license is optional. While the live license is absent, a backup
\* run stages no license, its license step changes nothing in the staging
\* directory and raises nothing, and the archive has no license entry. The
\* license step of a restore run over an archive without the license entry
\* changes nothing in the live tree and raises nothing.
C14_OptionalLicense ==
    [][\A p \in Procs :
          /\ (argv[p].func = "do_backup" /\ InGuard(p)
                /\ live[LICENSE] = "absent")
                => /\ staging'[p][<<".license">>] = "absent"
                   /\ archive'[p].state = "closed"
                         => <<".license">> \notin namelist(archive'[p])
                   /\ (pc[p] = "backup_chain"
                         /\ backup_chain[idx[p]] = LicenseResource)
                         => /\ staging'[p] = staging[p]
                            /\ pc'[p] = "backup_chain"
                            /\ exc'[p] = "none"
                            /\ LicenseResource \notin errlog'[p]
          /\ (pc[p] = "restore_chain"
                /\ restore_chain[idx[p]] = LicenseResource
                /\ <<".license">>
                      \notin namelist(archive[argv[p].backup_file]))
                => /\ live' = live
                   /\ pc'[p] = "restore_chain"
                   /\ exc'[p] = "none"
                   /\ LicenseResource \notin errlog'[p]
    ]_vars

\* a backup taken without a live license has produced an archive, a restore
\* run over that archive is past its license step, and the license is
\* still absent
C14_Witness ==
    \E p, q \in Procs :
        /\ argv[p].func = "do_backup" /\ pc[p] = "returned"
        /\ LicenseResource \in collected[p]
        /\ <<".license">> \notin namelist(archive[p])
        /\ argv[q].func = "do_restore" /\ argv[q].backup_file = p
        /\ LicenseResource \in collected[q]
        /\ live[LICENSE] = "absent"


\* C15: no step of a restore run changes the live certificate directory of
\* the key-value store.
C15_PkiUnchanged == [][live'[ETCD_PKI] = live[ETCD_PKI]]_vars

\* C15, as the code has it: the restore step of the certificate resource
\* changes nothing, and the live certificate directory is written by the
\* restore step of the key-value store and by nothing else: once that step
\* has returned the directory holds the certificates of the archive.
C15_PkiRestoredByEtcdStep ==
    [][/\ live'[ETCD_PKI] # live[ETCD_PKI] =>
             \E p \in Procs :
                /\ pc[p] = "restore_chain"
                /\ restore_chain[idx[p]] = EtcdResource
                /\ live'[ETCD_PKI] = member(archive[argv[p].backup_file],
                                            <<"etcd_pki", "certs">>)
       /\ \A p \in Procs :
             /\ (pc[p] = "restore_chain"
                   /\ restore_chain[idx[p]] = EtcdCertResource)
                   => live' = live
             /\ (argv'[p].func = "do_restore" /\ InGuard(p)'
                   /\ EtcdResource \in collected'[p])
                   => live'[ETCD_PKI] =
                         member(archive'[argv'[p].backup_file],
                                <<"etcd_pki", "certs">>)
    ]_vars

\* a restore run over the earlier archive is past the steps of the store
\* and of its certificates, and the live certificate directory holds the
\* certificates of that archive
C15_Witness ==
    \E p \in Procs :
        /\ argv[p].func = "do_restore" /\ argv[p].backup_file = 0
        /\ EtcdCertResource \in collected[p]
        /\ live[ETCD_PKI] = "earlier"


\* the archive members a capture step places: the files of the staging
\* directory at the final names its instructions write or rename to
placed_names ==
    [res \in Resources |->
        { n \in FinalPaths :
            \E i \in DOMAIN backup(res) :
               LET ins == backup(res)[i]
               IN  \/ ins.op = "rename" /\ n[1] = ins.b
                   \/ ins.op \in {"create", "fill"} /\ ins.b = n }]

placed(res, st) ==
    { [name |-> n, data |-> st[n]] :
        n \in {m \in placed_names[res] : st[m] # "absent"} }

\* the archive members a restore step that returned has read: those its
\* instructions open, copy or hand to the restore tool, a tree with all
\* the files below it
read_names ==
    [res \in Resources |->
        { n \in StagingPaths :
            \E i \in DOMAIN restore(res) :
               LET ins == restore(res)[i]
               IN  /\ ins.op \in {"open", "pg_restore", "put", "lput",
                                  "copytree"}
                   /\ IsPrefix(ins.a, n) }]

reads(res, zip) == { m \in zip.members : m.name \in read_names[res] }

\* a backup run of p in which every capture returned, and a restore run of q
\* over its archive in which every step returned
RoundTrip(p, q) ==
    /\ argv[p].func = "do_backup" /\ archive[p].state = "closed"
    /\ errlog[p] = {} /\ collected[p] = Resources
    /\ argv[q].func = "do_restore" /\ argv[q].backup_file = p
    /\ errlog[q] = {} /\ collected[q] = Resources

\* C16: after a backup in which every capture returned and a restore over
\* its archive, every resource's restore step has read exactly the members
\* that resource's capture placed in the staging directory.
C16_ReadsOwnEntries ==
    \A p, q \in Procs :
        RoundTrip(p, q) =>
            \A res \in Resources :
                reads(res, archive[p]) = placed(res, staging[p])

\* C16, as the code has it: the archive of a backup in which every capture
\* returned holds the log of the run and exactly the files the captures
\* placed, with their bytes; in a restore over it the steps read those
\* members with the same bytes, each step its own resource's, except that
\* the certificate step reads nothing and the step of the key-value store
\* reads the certificates as well; what the steps read is what they leave
\* in the live tree.
C16_RoundTrip ==
    [](
      /\ \A p \in Procs :
            (argv[p].func = "do_backup" /\ archive[p].state = "closed"
                /\ errlog[p] = {})
                => archive[p].members =
                      UNION { placed(res, staging[p]) : res \in Resources }
                         \cup { [name |-> <<"main.log">>, data |-> "log"] }
      /\ \A p, q \in Procs :
            RoundTrip(p, q) =>
                /\ \A res \in Resources \ {EtcdResource, EtcdCertResource} :
                      reads(res, archive[p]) = placed(res, staging[p])
                /\ reads(EtcdResource, archive[p]) =
                      placed(EtcdResource, staging[p])
                         \cup placed(EtcdCertResource, staging[p])
                /\ reads(EtcdCertResource, archive[p]) = {}
                /\ InGuard(q) =>
                      \A res \in Resources :
                          \A i \in DOMAIN restore(res) :
                              LET ins == restore(res)[i]
                              IN  (ins.op \in {"pg_restore", "put", "lput",
                                               "copytree"}
                                      /\ staging[p][ins.a] # "absent")
                                     => live[ins.b] = staging[p][ins.a]
    )

\* a backup in which every capture returned, and a restore over its archive
\* that has been through its seven steps and still holds the lock
C16_Witness ==
    \E p, q \in Procs :
        /\ RoundTrip(p, q) /\ pc[q] = "finally" /\ exc[q] = "none"
        /\ live[<<ETCD_DATA, "wal">>] # "absent"
        /\ live[LICENSE] # "absent"


\* C17: whichever of the live wal and snap directories exist before it, the
\* restore step of the key-value store returns, and afterwards each of the
\* two holds what the archive has for it.
C17_EtcdRestoreTolerant ==
    \A p \in Procs :
        (/\ argv[p].func = "do_restore"
         /\ attempts[p][EtcdResource] > 0
         /\ \/ pc[p] # "restore_chain"
            \/ restore_chain[idx[p]] # EtcdResource)
        => /\ EtcdResource \in collected[p]
           /\ InGuard(p) =>
                 \A d \in {"wal", "snap"} :
                     LET zip == archive[argv[p].backup_file]
                     IN  live[<<ETCD_DATA, d>>] =
                            IF <<"etcd", d>> \in namelist(zip)
                            THEN member(zip, <<"etcd", d>>)
                            ELSE "absent"


\* C18: a backup run launches the callback at most once, only when one is
\* configured and only when the archive is written and closed; it does not
\* wait for it, and whatever becomes of the callback the run returns the
\* archive path and releases the lock. A run without a callback launches
\* nothing.
C18_CallbackOnce ==
    [](
      \A p \in Procs :
          /\ popen[p] <= 1
          /\ popen[p] = 1 =>
                /\ argv[p].func = "do_backup" /\ argv[p].callback
                /\ archive[p].state = "closed"
                /\ pc[p] \in {"finally", "returned"}
                /\ exc[p] = "none"
          /\ (argv[p].func = "do_backup" /\ pc[p] \in {"finally", "returned"}
                /\ exc[p] = "none")
                => popen[p] = (IF argv[p].callback THEN 1 ELSE 0)
          /\ (pc[p] = "returned" /\ \A q \in Procs : ~InGuard(q)) => ~lockfile
    )

\* a backup run has launched its callback and returned, one with a step
\* skipped, and the marker is gone
C18_Witness ==
    \E p \in Procs :
        /\ popen[p] = 1 /\ pc[p] = "returned" /\ errlog[p] # {}
        /\ ~lockfile


\* the loop of a restore run was left by a failing step: a restore tool
\* error under the abort policy, or another exception under either policy
ChainAborted(p) ==
    /\ argv[p].func = "do_restore" /\ ChainStarted(p)
    /\ \/ ~skip_errors[p] /\ errlog[p] # {}
       \/ exc[p] \in OtherErrors

\* C19: a restore run whose loop was left by a failing step issues no
\* service command after the two that precede the loop and cleans up no
\* node: the key-value store and the API server, stopped before the loop,
\* are still stopped when the run releases the lock, and stay so until
\* another run starts them.
C19_AbortLeavesStopped ==
    [](
      \A p \in Procs :
          ChainAborted(p) =>
              /\ issued(p) = << [verb |-> "restart", units |-> {"postgresql"}],
                                [verb |-> "stop",
                                 units |-> {"etcd", "kube-apiserver"}] >>
              /\ pc[p] \in {"finally", "raised"}
              /\ exc[p] # "none"
              /\ purged[p] = 0
              /\ (InGuard(p) \/ \A q \in Procs \ {p} : Len(svclog[q]) <= 2)
                    => /\ services["etcd"] = "stopped"
                       /\ services["kube-apiserver"] = "stopped"
    )

\* an abort-policy restore was ended by the restore tool and a skip-policy
\* restore by another exception; both have released the lock and the two
\* services are stopped
C19_Witness ==
    \E p, q \in Procs :
        /\ ChainAborted(p) /\ ~skip_errors[p] /\ errlog[p] # {}
        /\ pc[p] = "raised"
        /\ ChainAborted(q) /\ skip_errors[q] /\ exc[q] \in OtherErrors
        /\ pc[q] = "raised"
        /\ services["etcd"] = "stopped"
        /\ services["kube-apiserver"] = "stopped"


\* the step r of the run of p has been called and is over
StepOver(p, r) ==
    /\ attempts[p][r] > 0
    /\ \/ pc[p] \notin {"backup_chain", "restore_chain"}
       \/ chain_of(p)[idx[p]] # r

\* the run of p was ended by the exception e of its step r: the step did
\* not return, was not passed over, and no later step was called
AbortedAt(p, r, e) ==
    /\ pc[p] \in {"finally", "raised"}
    /\ exc[p] = e
    /\ chain_of(p)[idx[p]] = r
    /\ r \notin collected[p] \cup errlog[p]
    /\ \A r2 \in Resources :
          pos(chain_of(p), r2) > idx[p] => attempts[p][r2] = 0

====
